---- MODULE Spec2Model ----
(***************************************************************************)
(* Session cache of the Home Security Assistant chat backend: the          *)
(* sync.Map chatSessions keyed by client IP, the request path              *)
(* handleChat / generateGeminiResponse and the cleanupSessions goroutine.  *)
(* Time is in minutes.                                                     *)
(***************************************************************************)
EXTENDS Integers, FiniteSets

(* ------------------------------ bounds --------------------------------- *)

\* last clock value the model lets the clock reach
MaxTime == 45
\* the clock advances in steps of Quantum minutes
Quantum == 15
\* the longest step of the clock between two wake-ups of the sweeper in TimedSpec
Step == 5

\* the requests the server receives, each handled on a goroutine of its own
Reqs == {1, 2}
\* client identifiers (c.IP())
IPs == {"a", "b"}
\* parsed request bodies: unparseable, message "", a non-empty message
Bodies == {"malformed", "empty", "text"}

(* -------------------------- program constants -------------------------- *)

\* 30*time.Minute, the idle threshold of cleanupSessions
TTL == 30
\* 10*time.Minute, the sleep of cleanupSessions
SweepInterval == 10

\* nil: no value under a key, no session held
None == 0
\* a map value that is not a *ChatSession
Malformed == -1
\* one *ChatSession value is built per request that reaches StartChat
Ents == 1..Cardinality(Reqs)

VARIABLES
  now,        \* the monotonic clock read by time.Now()
  apiKeySet,  \* whether GEMINI_API_KEY is in the environment
  client,     \* global client: 0 is nil, else the n-th client NewClient returned
  clientErr,  \* global clientErr # nil
  newClients, \* number of genai.NewClient calls made
  store,      \* chatSessions: key -> *ChatSession (None when the key is absent)
  nextEnt,    \* number of *ChatSession values constructed so far
  lastUsed,   \* ChatSession.LastUsed of each constructed value
  hist,       \* exchanges recorded in ChatSession.Session (the conversation)
  pc,         \* position of each request goroutine
  ip,         \* c.IP() of the request being served
  body,       \* the body of the request being served
  res,        \* whether this request's NewClient call succeeded
  mdl,        \* the client this request built its model from
  cand,       \* the *ChatSession built as LoadOrStore's argument
  cs,         \* the *ChatSession LoadOrStore returned
  tnow,       \* the time.Now() value about to be written to cs.LastUsed
  outcome,    \* how the request ended
  spc,        \* position of the cleanupSessions goroutine
  wakeAt,     \* earliest clock value at which time.Sleep returns
  sweepNow,   \* cleanupSessions' local now
  snapshot,   \* keys present when Range began
  visited,    \* keys Range has called the callback on
  cur,        \* key of the callback that is about to call Delete
  \* history variables, read by no action's guard
  evicted,    \* <<key, value>> pairs removed by cleanupSessions
  built,      \* StartChat calls per key since the key was last evicted
  moved,      \* this request changed the LastUsed of a session it did not create
  seenStale,  \* values the current sweep found idle for more than TTL
  seenFresh   \* <<key, value>> pairs the current sweep found idle for less than TTL

reqVars == <<pc, ip, body, res, mdl, cand, cs, tnow, outcome, moved>>
sweepVars == <<spc, wakeAt, sweepNow, snapshot, visited, cur, seenStale, seenFresh>>
clientVars == <<client, clientErr, newClients>>
entVars == <<nextEnt, lastUsed, hist>>
vars == <<now, apiKeySet, clientVars, store, entVars, reqVars, sweepVars, evicted, built>>

(* ---------------------------- sync.Map --------------------------------- *)

\* the map after LoadOrStore(k, v)
LoadOrStoreMap(m, k, v) == IF m[k] # None THEN m ELSE [m EXCEPT ![k] = v]

\* Store semantics: the argument is returned even when the key is present
LoadOrStoreActualNew(m, k, v) == v

\* the value LoadOrStore(k, v) returns
LoadOrStoreActual(m, k, v) == IF m[k] # None THEN m[k] ELSE v

\* Delete that leaves the entry in place
DeleteNoop(m, k) == m

\* Clear in place of Delete: every entry goes
DeleteAll(m, k) == [j \in IPs |-> None]

\* the map after Delete(k)
Delete(m, k) == [m EXCEPT ![k] = None]

(* --------------------------- handleChat -------------------------------- *)

Statuses == [none |-> 0, ok |-> 200, bad_body |-> 400, no_key |-> 500, client_err |-> 500,
             panic |-> 500, send_failed |-> 500, no_content |-> 500]

\* HTTP status of a finished request
Status(r) == Statuses[outcome[r]]

\* a single key shared by every client
SessionKeyShared(r) == "a"

\* ip := c.IP(), the key generateGeminiResponse uses
SessionKey(r) == ip[r]

\* the handler returns with outcome o
Finish(r, o) ==
  /\ pc' = [pc EXCEPT ![r] = "done"]
  /\ outcome' = [outcome EXCEPT ![r] = o]
  /\ mdl' = [mdl EXCEPT ![r] = 0]
  /\ moved' = [moved EXCEPT ![r] = FALSE]

\* handleChat up to the GEMINI_API_KEY lookup of generateGeminiResponse
HandleChat(r, k, b) ==
  /\ pc[r] = "idle"
  /\ ip' = [ip EXCEPT ![r] = k]
  /\ body' = [body EXCEPT ![r] = b]
  /\ IF b = "malformed"
       THEN Finish(r, "bad_body")
       ELSE IF ~apiKeySet
         THEN Finish(r, "no_key")
         ELSE /\ pc' = [pc EXCEPT ![r] = "init"]
              /\ outcome' = [outcome EXCEPT ![r] = "none"]
              /\ UNCHANGED <<mdl, moved>>
  /\ UNCHANGED <<now, apiKeySet, clientVars, store, entVars, res, cand, cs, tnow,
                 sweepVars, evicted, built>>

\* if client == nil && clientErr == nil
InitCheck(r) ==
  /\ pc[r] = "init"
  /\ pc' = [pc EXCEPT ![r] = IF client = 0 /\ ~clientErr THEN "newclient" ELSE "errchk"]
  /\ UNCHANGED <<now, apiKeySet, clientVars, store, entVars, ip, body, res, mdl, cand,
                 cs, tnow, outcome, moved, sweepVars, evicted, built>>

\* genai.NewClient returns and the global client is assigned
NewClient(r, ok) ==
  /\ pc[r] = "newclient"
  /\ newClients' = newClients + 1
  /\ client' = IF ok THEN newClients + 1 ELSE 0
  /\ res' = [res EXCEPT ![r] = ok]
  /\ pc' = [pc EXCEPT ![r] = "seterr"]
  /\ UNCHANGED <<now, apiKeySet, clientErr, store, entVars, ip, body, mdl, cand, cs,
                 tnow, outcome, moved, sweepVars, evicted, built>>

\* the global clientErr is assigned; if clientErr != nil { return }
SetClientErr(r) ==
  /\ pc[r] = "seterr"
  /\ clientErr' = ~res[r]
  /\ res' = [res EXCEPT ![r] = FALSE]
  /\ IF res[r]
       THEN /\ pc' = [pc EXCEPT ![r] = "errchk"]
            /\ UNCHANGED <<outcome, mdl, moved>>
       ELSE Finish(r, "client_err")
  /\ UNCHANGED <<now, apiKeySet, client, newClients, store, entVars, ip, body, cand, cs,
                 tnow, sweepVars, evicted, built>>

\* if clientErr != nil { return }
ErrCheck(r) ==
  /\ pc[r] = "errchk"
  /\ IF clientErr
       THEN Finish(r, "client_err")
       ELSE /\ pc' = [pc EXCEPT ![r] = "model"]
            /\ UNCHANGED <<outcome, mdl, moved>>
  /\ UNCHANGED <<now, apiKeySet, clientVars, store, entVars, ip, body, res, cand, cs,
                 tnow, sweepVars, evicted, built>>

\* model := client.GenerativeModel(...): a nil client panics, recover answers 500
GenerativeModel(r) ==
  /\ pc[r] = "model"
  /\ IF client = 0
       THEN Finish(r, "panic")
       ELSE /\ pc' = [pc EXCEPT ![r] = "chat"]
            /\ mdl' = [mdl EXCEPT ![r] = client]
            /\ UNCHANGED <<outcome, moved>>
  /\ UNCHANGED <<now, apiKeySet, clientVars, store, entVars, ip, body, res, cand, cs,
                 tnow, sweepVars, evicted, built>>

\* &ChatSession{Session: model.StartChat(), LastUsed: time.Now()}, the argument
\* of LoadOrStore, built on every call
StartChat(r) ==
  /\ pc[r] = "chat"
  /\ nextEnt' = nextEnt + 1
  /\ lastUsed' = [lastUsed EXCEPT ![nextEnt + 1] = now]
  /\ hist' = [hist EXCEPT ![nextEnt + 1] = 0]
  /\ cand' = [cand EXCEPT ![r] = nextEnt + 1]
  /\ built' = [built EXCEPT ![SessionKey(r)] = @ + 1]
  /\ pc' = [pc EXCEPT ![r] = "los"]
  /\ UNCHANGED <<now, apiKeySet, clientVars, store, ip, body, res, mdl, cs, tnow,
                 outcome, moved, sweepVars, evicted>>

\* LoadOrStore under a map-wide lock that a request keeps through its provider
\* call
LoadOrStoreLocked(r) ==
  /\ pc[r] = "los"
  /\ \A q \in Reqs : pc[q] # "send"
  /\ store' = LoadOrStoreMap(store, SessionKey(r), cand[r])
  /\ IF LoadOrStoreActual(store, SessionKey(r), cand[r]) = Malformed
       THEN /\ Finish(r, "panic")
            /\ cand' = [cand EXCEPT ![r] = None]
            /\ lastUsed' = [lastUsed EXCEPT ![cand[r]] = 0]
            /\ UNCHANGED cs
       ELSE /\ cs' = [cs EXCEPT ![r] = LoadOrStoreActual(store, SessionKey(r), cand[r])]
            /\ lastUsed' = IF \E k \in IPs : store'[k] = cand[r] \/ cs'[r] = cand[r]
                             THEN lastUsed ELSE [lastUsed EXCEPT ![cand[r]] = 0]
            /\ pc' = [pc EXCEPT ![r] = "now"]
            /\ UNCHANGED <<mdl, cand, outcome, moved>>
  /\ UNCHANGED <<now, apiKeySet, clientVars, nextEnt, hist, ip, body, res, tnow,
                 sweepVars, evicted, built>>

\* session, _ := chatSessions.LoadOrStore(ip, ...); cs := session.(*ChatSession).
\* An argument that was not stored is unreachable from then on: its fields are
\* cleared here. The type assertion panics on a value that is not a
\* *ChatSession, and the recover middleware answers 500.
LoadOrStore(r) ==
  /\ pc[r] = "los"
  /\ store' = LoadOrStoreMap(store, SessionKey(r), cand[r])
  /\ IF LoadOrStoreActual(store, SessionKey(r), cand[r]) = Malformed
       THEN /\ Finish(r, "panic")
            /\ cand' = [cand EXCEPT ![r] = None]
            /\ lastUsed' = [lastUsed EXCEPT ![cand[r]] = 0]
            /\ UNCHANGED cs
       ELSE /\ cs' = [cs EXCEPT ![r] = LoadOrStoreActual(store, SessionKey(r), cand[r])]
            /\ lastUsed' = IF \E k \in IPs : store'[k] = cand[r] \/ cs'[r] = cand[r]
                             THEN lastUsed ELSE [lastUsed EXCEPT ![cand[r]] = 0]
            /\ pc' = [pc EXCEPT ![r] = "now"]
            /\ UNCHANGED <<mdl, cand, outcome, moved>>
  /\ UNCHANGED <<now, apiKeySet, clientVars, nextEnt, hist, ip, body, res, tnow,
                 sweepVars, evicted, built>>

\* time.Now(), the right-hand side of cs.LastUsed = time.Now()
ReadClock(r) ==
  /\ pc[r] = "now"
  /\ tnow' = [tnow EXCEPT ![r] = now]
  /\ pc' = [pc EXCEPT ![r] = "write"]
  /\ UNCHANGED <<now, apiKeySet, clientVars, store, entVars, ip, body, res, mdl, cand,
                 cs, outcome, moved, sweepVars, evicted, built>>

\* LastUsed after the unsynchronized store cs.LastUsed = t
Refreshed(lu, e, t) == [lu EXCEPT ![e] = t]

\* cs.LastUsed = time.Now(), the store to the field
WriteLastUsed(r) ==
  /\ pc[r] = "write"
  /\ lastUsed' = Refreshed(lastUsed, cs[r], tnow[r])
  /\ moved' = [moved EXCEPT ![r] = cs[r] # cand[r] /\ lastUsed'[cs[r]] # lastUsed[cs[r]]]
  /\ tnow' = [tnow EXCEPT ![r] = 0]
  /\ cand' = [cand EXCEPT ![r] = None]
  /\ pc' = [pc EXCEPT ![r] = "send"]
  /\ UNCHANGED <<now, apiKeySet, clientVars, store, nextEnt, hist, ip, body, res, mdl,
                 cs, outcome, sweepVars, evicted, built>>

SendOutcomes == {"ok", "send_failed", "no_content"}

\* an error path that also drops the session
SendMessageDropsOnError(r, o) ==
  /\ pc[r] = "send"
  /\ IF o = "send_failed"
       THEN UNCHANGED hist
       ELSE hist' = [hist EXCEPT ![cs[r]] = @ + 1]
  /\ store' = IF o = "ok" THEN store ELSE [store EXCEPT ![SessionKey(r)] = None]
  /\ Finish(r, o)
  /\ UNCHANGED <<now, apiKeySet, clientVars, nextEnt, lastUsed, ip, body, res, cand,
                 cs, tnow, sweepVars, evicted, built>>

\* resp, err := cs.Session.SendMessage(ctx, genai.Text(userInput)) and the return:
\* an error, a reply with a text part, or a reply without one. hist counts the
\* replies the conversation has recorded.
SendMessage(r, o) ==
  /\ pc[r] = "send"
  /\ IF o = "send_failed"
       THEN UNCHANGED hist
       ELSE hist' = [hist EXCEPT ![cs[r]] = @ + 1]
  /\ Finish(r, o)
  /\ UNCHANGED <<now, apiKeySet, clientVars, store, nextEnt, lastUsed, ip, body, res,
                 cand, cs, tnow, sweepVars, evicted, built>>

(* ------------------------- cleanupSessions ------------------------------ *)

\* the threshold taken from the sleep interval
ExpiredShort(nw, lu) == nw - lu > SweepInterval

\* the subtraction the other way round
ExpiredReversed(nw, lu) == lu - nw > TTL

\* the sleep interval added to the threshold
ExpiredLate(nw, lu) == nw - lu > TTL + SweepInterval

\* now.Sub(cs.LastUsed) > 30*time.Minute
Expired(nw, lu) == nw - lu > TTL

\* time.Sleep(10 * time.Minute) returns; now := time.Now(); Range begins
Wake ==
  /\ spc = "sleep"
  /\ now >= wakeAt
  /\ sweepNow' = now
  /\ snapshot' = {k \in IPs : store[k] # None}
  /\ seenStale' = {}
  /\ seenFresh' = {}
  /\ spc' = "range"
  /\ wakeAt' = 0
  /\ UNCHANGED <<now, apiKeySet, clientVars, store, entVars, reqVars, visited, cur,
                 evicted, built>>

\* a callback that ends Range at a value that is not a *ChatSession
CallbackReturnStop(v) == v # Malformed

\* the callback's result, return true on both paths: Range goes on
CallbackReturn(v) == TRUE

\* the Range callback on key k up to the comparison: a value that is not a
\* *ChatSession is logged and skipped. Range ends at once when the callback
\* returns false.
Visit(k) ==
  /\ spc = "range"
  /\ k \notin visited
  /\ store[k] # None
  /\ IF CallbackReturn(store[k])
       THEN /\ visited' = visited \cup {k}
            /\ IF store[k] # Malformed /\ Expired(sweepNow, lastUsed[store[k]])
                 THEN /\ spc' = "delete"
                      /\ cur' = k
                 ELSE UNCHANGED <<spc, cur>>
            /\ UNCHANGED <<wakeAt, sweepNow, snapshot>>
       ELSE /\ spc' = "sleep"
            /\ wakeAt' = now + SweepInterval
            /\ sweepNow' = 0
            /\ snapshot' = {}
            /\ visited' = {}
            /\ UNCHANGED cur
  /\ seenStale' = IF store[k] # Malformed /\ sweepNow - lastUsed[store[k]] > TTL
                    THEN seenStale \cup {store[k]} ELSE seenStale
  /\ seenFresh' = IF store[k] # Malformed /\ sweepNow - lastUsed[store[k]] < TTL
                    THEN seenFresh \cup {<<k, store[k]>>} ELSE seenFresh
  /\ UNCHANGED <<now, apiKeySet, clientVars, store, entVars, reqVars, evicted, built>>

\* chatSessions.Delete(key) in the callback
DeleteKey ==
  /\ spc = "delete"
  /\ store' = Delete(store, cur)
  /\ evicted' = IF store[cur] # None THEN evicted \cup {<<cur, store[cur]>>} ELSE evicted
  /\ built' = [built EXCEPT ![cur] = 0]
  /\ spc' = "range"
  /\ cur' = "a"
  /\ UNCHANGED <<now, apiKeySet, clientVars, entVars, reqVars, wakeAt, sweepNow,
                 snapshot, visited, seenStale, seenFresh>>

\* Range returns once every key that was present throughout has been visited;
\* the loop goes back to time.Sleep
EndRange ==
  /\ spc = "range"
  /\ \A k \in snapshot : k \in visited \/ store[k] = None
  /\ spc' = "sleep"
  /\ wakeAt' = now + SweepInterval
  /\ sweepNow' = 0
  /\ snapshot' = {}
  /\ visited' = {}
  /\ UNCHANGED <<now, apiKeySet, clientVars, store, entVars, reqVars, cur, seenStale,
                 seenFresh, evicted, built>>

\* the clock advances
Tick ==
  /\ now + Quantum <= MaxTime
  /\ now' = now + Quantum
  /\ UNCHANGED <<apiKeySet, clientVars, store, entVars, reqVars, sweepVars, evicted,
                 built>>

(* ------------------------------ system ---------------------------------- *)

\* the state when main starts serving, with m the content of chatSessions
InitWith(m) ==
  /\ now = 0
  /\ apiKeySet \in BOOLEAN
  /\ client = 0
  /\ clientErr = FALSE
  /\ newClients = 0
  /\ store = m
  /\ nextEnt = 0
  /\ lastUsed = [e \in Ents |-> 0]
  /\ hist = [e \in Ents |-> 0]
  /\ pc = [r \in Reqs |-> "idle"]
  /\ ip = [r \in Reqs |-> "a"]
  /\ body = [r \in Reqs |-> "text"]
  /\ res = [r \in Reqs |-> FALSE]
  /\ mdl = [r \in Reqs |-> 0]
  /\ cand = [r \in Reqs |-> None]
  /\ cs = [r \in Reqs |-> None]
  /\ tnow = [r \in Reqs |-> 0]
  /\ outcome = [r \in Reqs |-> "none"]
  /\ moved = [r \in Reqs |-> FALSE]
  /\ spc = "sleep"
  /\ wakeAt = SweepInterval
  /\ sweepNow = 0
  /\ snapshot = {}
  /\ visited = {}
  /\ cur = "a"
  /\ evicted = {}
  /\ built = [k \in IPs |-> 0]
  /\ seenStale = {}
  /\ seenFresh = {}

\* chatSessions = sync.Map{}: the map starts empty
Init == InitWith([k \in IPs |-> None])

\* maps holding values that are not *ChatSession under some keys: what the
\* Range callback's !ok branch is written for. The program never stores one.
MalformedMaps == {m \in [IPs -> {None, Malformed}] : \E k \in IPs : m[k] = Malformed}

InitMalformed == \E m \in MalformedMaps : InitWith(m)

Next ==
  \/ \E r \in Reqs, k \in IPs, b \in Bodies : HandleChat(r, k, b)
  \/ \E r \in Reqs : InitCheck(r)
  \/ \E r \in Reqs, ok \in BOOLEAN : NewClient(r, ok)
  \/ \E r \in Reqs : SetClientErr(r)
  \/ \E r \in Reqs : ErrCheck(r)
  \/ \E r \in Reqs : GenerativeModel(r)
  \/ \E r \in Reqs : StartChat(r)
  \/ \E r \in Reqs : LoadOrStore(r)
  \/ \E r \in Reqs : ReadClock(r)
  \/ \E r \in Reqs : WriteLastUsed(r)
  \/ \E r \in Reqs, o \in SendOutcomes : SendMessage(r, o)
  \/ Wake
  \/ \E k \in IPs : Visit(k)
  \/ DeleteKey
  \/ EndRange
  \/ Tick

Spec == Init /\ [][Next]_vars

\* a step request goroutine r takes by itself: every step but the arrival of
\* the request (HandleChat) and the provider's answer (SendMessage)
RequestStep(r) ==
  \/ InitCheck(r)
  \/ \E ok \in BOOLEAN : NewClient(r, ok)
  \/ SetClientErr(r)
  \/ ErrCheck(r)
  \/ GenerativeModel(r)
  \/ StartChat(r)
  \/ LoadOrStore(r)
  \/ ReadClock(r)
  \/ WriteLastUsed(r)

\* a step of the cleanupSessions goroutine
SweepStep == Wake \/ (\E k \in IPs : Visit(k)) \/ DeleteKey \/ EndRange

\* the Go scheduler runs every goroutine that can run and the clock advances;
\* nothing makes a client send a request or the provider answer one
Fairness ==
  /\ \A r \in Reqs : WF_vars(RequestStep(r))
  /\ WF_vars(SweepStep)
  /\ WF_vars(Tick)

FairSpec == Spec /\ Fairness

\* the program started on a map that holds malformed values
MalformedSpec == InitMalformed /\ [][Next]_vars

\* the clock of a run in which only time.Sleep and the provider call take
\* time: it advances while cleanupSessions sleeps, up to the instant the sleep
\* ends, and while no request is between two statements of its own
TickTimed ==
  /\ spc = "sleep"
  /\ now < wakeAt
  /\ \A r \in Reqs : pc[r] \in {"idle", "send", "done"}
  /\ now' = IF now + Step < wakeAt THEN now + Step ELSE wakeAt
  /\ now' <= MaxTime
  /\ UNCHANGED <<apiKeySet, clientVars, store, entVars, reqVars, sweepVars, evicted,
                 built>>

NextTimed ==
  \/ \E r \in Reqs, k \in IPs, b \in Bodies : HandleChat(r, k, b)
  \/ \E r \in Reqs : InitCheck(r)
  \/ \E r \in Reqs, ok \in BOOLEAN : NewClient(r, ok)
  \/ \E r \in Reqs : SetClientErr(r)
  \/ \E r \in Reqs : ErrCheck(r)
  \/ \E r \in Reqs : GenerativeModel(r)
  \/ \E r \in Reqs : StartChat(r)
  \/ \E r \in Reqs : LoadOrStore(r)
  \/ \E r \in Reqs : ReadClock(r)
  \/ \E r \in Reqs : WriteLastUsed(r)
  \/ \E r \in Reqs, o \in SendOutcomes : SendMessage(r, o)
  \/ Wake
  \/ \E k \in IPs : Visit(k)
  \/ DeleteKey
  \/ EndRange
  \/ TickTimed

\* the program on a clock for which a statement takes no time
TimedSpec == Init /\ [][NextTimed]_vars

(* ------------------------------ claims ---------------------------------- *)

Failed == {"send_failed", "no_content"}

\* r has come back from LoadOrStore and has not returned yet
InFlight(r) == pc[r] \in {"now", "write", "send"}

\* e was removed from the map by cleanupSessions
Evicted(e) == \E p \in evicted : p[2] = e

\* e is in the map or held by a request
Live(e) == (\E k \in IPs : store[k] = e) \/ (\E r \in Reqs : cs[r] = e)

\* this step is r's LoadOrStore
LoadOrStoreStep(r) == pc[r] = "los" /\ pc'[r] = "now"

\* this step is r's SendMessage returning a failed exchange
FailedExchangeStep(r) == pc[r] = "send" /\ pc'[r] = "done" /\ outcome'[r] \in Failed

\* C1 as stated: any two requests in flight for the same identifier hold the
\* same session, whatever cleanupSessions does in between.
C1_SameEntityAlways ==
  \A r1, r2 \in Reqs :
    (InFlight(r1) /\ InFlight(r2) /\ ip[r1] = ip[r2]) => cs[r1] = cs[r2]

\* C1 amended: the session a request obtained is the one stored under its
\* identifier until cleanupSessions evicts it, so two requests for the same
\* identifier hold different sessions only if one of the two was evicted.
C1_SameEntityUnlessEvicted ==
  /\ \A r \in Reqs :
       (cs[r] # None /\ ~Evicted(cs[r])) => store[ip[r]] = cs[r]
  /\ \A r1, r2 \in Reqs :
       (cs[r1] # None /\ cs[r2] # None /\ ip[r1] = ip[r2] /\ cs[r1] # cs[r2])
         => (Evicted(cs[r1]) \/ Evicted(cs[r2]))

\* two requests in flight for one identifier share the stored session, the
\* second having built a session of its own that was not stored
C1_Witness ==
  \E r1, r2 \in Reqs :
    /\ r1 # r2 /\ InFlight(r1) /\ InFlight(r2)
    /\ ip[r1] = ip[r2] /\ cs[r1] = cs[r2]
    /\ store[ip[r1]] = cs[r1] /\ nextEnt = 2

\* C2: between two evictions of an identifier at most one session is built
\* for it (one StartChat, not one per call).
C2_OneConstruction == \A k \in IPs : built[k] <= 1

\* C3: a request whose SendMessage fails has not changed the LastUsed of the
\* session it found in the map.
C3_FailureKeepsLastUsed ==
  [][\A r \in Reqs :
       (pc[r] = "send" /\ pc'[r] = "done" /\ outcome'[r] = "send_failed") => ~moved[r]]_vars

\* C4: a request with an empty message is answered 400 at once: it never
\* enters generateGeminiResponse, obtains no session and calls no provider.
C4_EmptyRejected ==
  \A r \in Reqs :
    body[r] = "empty" =>
      \/ pc[r] = "idle"
      \/ pc[r] = "done" /\ Status(r) = 400 /\ cs[r] = None

\* C5: the LastUsed of a session in use never decreases.
C5_LastUsedMonotonic ==
  [][\A e \in Ents : Live(e) => lastUsed'[e] >= lastUsed[e]]_vars

\* C6: an entry the sweep examined and found idle for less than TTL is in the
\* map, as the same session, at every step up to and after the end of that
\* sweep cycle.
C6_FreshSurvivesSweep ==
  \A p \in seenFresh : store[p[1]] = p[2]

\* a sweep cycle has ended after finding an entry idle for less than TTL, and
\* the entry, last used some time ago, is still there
C6_Witness ==
  /\ spc = "sleep"
  /\ \E p \in seenFresh : store[p[1]] = p[2] /\ now - lastUsed[p[2]] > 0

\* C7: once a sweep cycle is over, no session it examined and found idle for
\* more than TTL is in the map.
C7_StaleGoneAfterSweep ==
  spc = "sleep" => \A e \in seenStale : \A k \in IPs : store[k] # e

\* a sweep cycle has ended after finding a session idle for more than TTL
C7_Witness ==
  /\ spc = "sleep"
  /\ \E e \in seenStale : Evicted(e) /\ \A k \in IPs : store[k] # e

\* C8: LoadOrStore never returns a session cleanupSessions has evicted, and on
\* an absent key (as after an eviction) it returns the session just built,
\* whose conversation is empty.
C8_NoResurrection ==
  [][\A r \in Reqs :
       LoadOrStoreStep(r) =>
         /\ ~Evicted(cs'[r])
         /\ store[ip[r]] = None =>
              (cs'[r] = cand[r] /\ store'[ip[r]] = cand[r] /\ hist'[cs'[r]] = 0)]_vars

\* a request has obtained a fresh session for an identifier whose earlier
\* session, with an exchange in its history, was evicted
C8_Witness ==
  \E r \in Reqs : \E p \in evicted :
    /\ pc[r] = "now" /\ p[1] = ip[r] /\ p[2] # cs[r]
    /\ hist[p[2]] > 0 /\ hist[cs[r]] = 0 /\ store[ip[r]] = cs[r]

\* C9: a failed exchange leaves the map as it was, the session still stored
\* under its identifier unless cleanupSessions evicted it, and the next
\* LoadOrStore for that identifier returns that session.
C9_FailureKeepsSession ==
  [][\A r \in Reqs :
       /\ FailedExchangeStep(r) =>
            /\ store' = store
            /\ ~Evicted(cs[r]) => store'[ip[r]] = cs[r]
       /\ LoadOrStoreStep(r) =>
            \A q \in Reqs :
              (pc[q] = "done" /\ outcome[q] \in Failed /\ ip[q] = ip[r]
                 /\ ~Evicted(cs[q])) => cs'[r] = cs[q]]_vars

\* a request failed and another request for the same identifier has the same
\* session, still stored
C9_Witness ==
  \E q, r \in Reqs :
    /\ pc[q] = "done" /\ outcome[q] \in Failed
    /\ pc[r] = "now" /\ ip[r] = ip[q]
    /\ cs[r] = cs[q] /\ store[ip[q]] = cs[q]

\* C10: a step of a request for identifier A leaves the entry, the LastUsed
\* and the conversation of every other identifier as they were.
C10_Isolation ==
  [][\A r \in Reqs :
       pc'[r] # pc[r] =>
         \A k \in IPs \ {ip'[r]} :
           /\ store'[k] = store[k]
           /\ store[k] # None =>
                /\ lastUsed'[store[k]] = lastUsed[store[k]]
                /\ hist'[store[k]] = hist[store[k]]]_vars

\* a request failed at the provider while another identifier's session, with
\* an exchange in its history, is in the map
C10_Witness ==
  \E r \in Reqs : \E k \in IPs \ {ip[r]} :
    /\ pc[r] = "done" /\ outcome[r] = "send_failed"
    /\ store[k] # None /\ hist[store[k]] > 0

\* C11: genai.NewClient is called at most once in the life of the process,
\* whatever the interleaving of the first requests, and every request that
\* builds a model builds it from the client that one call returned.
C11_ClientInitOnce ==
  /\ newClients <= 1
  /\ \A r \in Reqs : mdl[r] # 0 => mdl[r] = 1

\* C12: once the initialization failure is cached in clientErr it stays
\* cached, genai.NewClient is not called again, and a request that reaches the
\* checks on clientErr returns that failure, with the map, every LastUsed and
\* every conversation as they were.
C12_InitFailureCached ==
  [][clientErr =>
       /\ clientErr'
       /\ newClients' = newClients
       /\ \A r \in Reqs :
            (pc[r] \in {"init", "errchk"} /\ pc'[r] # pc[r]) =>
              /\ pc'[r] = "errchk" \/ (pc'[r] = "done" /\ outcome'[r] = "client_err")
              /\ store' = store
              /\ entVars' = entVars]_vars

HasReachedLoadOrStore(k) ==
  \E r \in Reqs : ip[r] = k /\ cs[r] # None /\ pc[r] \in {"now", "write", "send", "done"}

\* C14: the map holds an entry for an identifier only if a request bearing
\* that identifier has reached LoadOrStore, and an entry appears only by the
\* LoadOrStore step of such a request, never by a step of cleanupSessions.
C14_NoCreationWithoutRequest ==
  /\ [](\A k \in IPs : store[k] # None => HasReachedLoadOrStore(k))
  /\ [][\A k \in IPs :
          (store'[k] # store[k] /\ store'[k] # None) =>
            \E r \in Reqs : LoadOrStoreStep(r) /\ ip[r] = k]_vars

\* a sweep cycle has run to its end with one identifier's session in the map
\* and no entry for the identifier no request has borne
C14_Witness ==
  /\ spc = "sleep" /\ wakeAt > SweepInterval
  /\ \E k, j \in IPs :
       /\ store[k] # None /\ store[j] = None
       /\ \A r \in Reqs : ip[r] = k /\ pc[r] = "done"

\* C15: a request that has entered the provider call returns, whether or not
\* the provider ever answers (the call is bounded by a request-scoped timeout).
C15_ProviderCallReturns ==
  \A r \in Reqs : (pc[r] = "send") ~> (pc[r] = "done")

\* C16: at most one request at a time is inside SendMessage on one
\* conversation: two requests in the provider call hold different sessions.
C16_ExchangesSerialized ==
  \A r1, r2 \in Reqs :
    (r1 # r2 /\ pc[r1] = "send" /\ pc[r2] = "send") => cs[r1] # cs[r2]

\* C19: when cleanupSessions removes an entry, the entry's LastUsed is at that
\* instant more than TTL in the past, whatever requests did since the sweep
\* read it.
C19_DeleteOnlyIfIdleAtRemoval ==
  [][(spc = "delete" /\ spc' = "range" /\ store[cur] # None) =>
       now - lastUsed[store[cur]] > TTL]_vars

\* the sweeper is asleep until its time comes, or has a step to take
SweeperAlive ==
  IF spc = "sleep" THEN (now >= wakeAt => ENABLED Wake) ELSE ENABLED SweepStep

\* C18: cleanupSessions never stops: it is asleep or has a step to take, and a
\* sweep ends only in the next sleep, after the callback has run on every
\* entry that is still there. A value that is not a *ChatSession is left in
\* the map and does not end the sweep.
C18_SweeperForever ==
  /\ []SweeperAlive
  /\ [][/\ (spc = "range" /\ spc' = "sleep") =>
             /\ wakeAt' = now + SweepInterval
             /\ \A k \in snapshot : k \in visited \/ store[k] = None
        /\ \A k \in IPs :
             store[k] = Malformed =>
               /\ store'[k] = Malformed
               /\ (k \notin visited /\ k \in visited') => spc' = "range"]_vars

\* a sweep has ended that met a malformed value, still in the map, and a
\* session idle for more than TTL, which it deleted
C18_Witness ==
  /\ spc = "sleep"
  /\ \E k \in IPs : store[k] = Malformed
  /\ \E e \in seenStale : Evicted(e)

\* r has built a session it has not yet offered to the map, or is in the
\* provider call
Holding(r) == pc[r] \in {"los", "send"}

\* C17: while a request is between building its session and LoadOrStore, or
\* in the provider call, a request for another identifier can build its
\* session and take its LoadOrStore step, and cleanupSessions can take its
\* next step: nothing the request holds keeps them waiting.
C17_NoStoreWideLock ==
  \A r \in Reqs :
    Holding(r) =>
      /\ \A q \in Reqs :
           ip[q] # ip[r] =>
             /\ pc[q] = "chat" => ENABLED StartChat(q)
             /\ pc[q] = "los" => ENABLED LoadOrStore(q)
      /\ SweeperAlive

\* a request is in the provider call while a request for another identifier
\* is about to call LoadOrStore and cleanupSessions is in the middle of a sweep
C17_Witness ==
  \E r, q \in Reqs :
    pc[r] = "send" /\ pc[q] = "los" /\ ip[q] # ip[r] /\ spc = "delete"

====
